---- MODULE Spec2Model ----
(***************************************************************************)
(* Booking conflict detection of the library / room / board-game booking   *)
(* backend (Express + PostgreSQL).                                         *)
(*                                                                         *)
(* The tables room_requests and game_requests are sequences of rows; the   *)
(* SERIAL primary key _id of a row is its index.  Times of day (HH:MM) are *)
(* the integers 0..MaxTime, calendar dates are small integers, compared as *)
(* PostgreSQL compares TIME and DATE values.                               *)
(*                                                                         *)
(* Spec         room routes, one HTTP request handled at a time            *)
(* SpecTwoRooms the same with two rooms                                    *)
(* SpecGames    game routes, one HTTP request handled at a time            *)
(* SpecBoth     room and game routes together                              *)
(* SpecConc     room routes, handlers interleaved at every awaited query   *)
(* SpecBooks    book and borrow routes, one HTTP request at a time         *)
(* SpecBorrow   borrow routes, handlers interleaved at every awaited query *)
(***************************************************************************)
EXTENDS Integers, Sequences, FiniteSets, TLC

\* ---------------------------------------------------------------- bounds
MaxRequests == 2
MaxTime == 3
MaxHandlers == 2
MaxBorrows == 2
MaxQuantity == 2

Times == 0 .. MaxTime
\* what a client may send as (startTime, endTime): MaxTime + 1 stands for a
\* string the HH:MM pattern refuses (such as "24:00")
InputTimePairs == (Times \X Times) \cup {<<MaxTime + 1, 0>>, <<0, MaxTime + 1>>}
Dates == {1, 2}
ConcDates == {1}
\* room ids a client may send; the rooms table holds only those in `rooms`
RoomIds == {1, 2}
GameIds == {1}
Members == {1}
Admins == {7}
NULL == 0

\* book ids a client may send; table books holds book 1 until it is deleted
BookIds == {1, 2}
Students == {1, 2}
\* a body without quantity
NoQuantity == MaxQuantity + 2
\* what a client may send as quantity
QuantityInputs == (-1 .. MaxQuantity + 1) \cup {NoQuantity}
BorrowStatuses == {"pending", "approved", "rejected", "returned"}

PutStatuses == {"approved", "rejected", "cancelled", "pending"}
\* every status value a client may put in the body of a PUT
BodyStatuses == PutStatuses \cup {"returned"}

VARIABLES
    rooms,          \* _id of every row of table rooms
    roomRequests,   \* table room_requests
    gameRequests,   \* table game_requests
    resp,           \* the HTTP response of the last handled request (Spec, SpecGames)
    handlers,       \* the handlers in flight, each between two awaits
    books,          \* table books: _id -> quantity and available of the row
    borrowRequests  \* table borrow_requests

vars == <<rooms, roomRequests, gameRequests, resp, handlers, books, borrowRequests>>

\* ------------------------------------------------------------- responses
Response(code, msg) == [code |-> code, msg |-> msg]

NoResponse == Response(0, "")

\* ------------------------------------------------------- SQL predicates
\* a slip: the containment disjunct (start_time >= $3 AND end_time <= $4) left out
SqlOverlapNoContainment(s, e, cs, ce) ==
    \/ (s <= cs /\ e > cs)
    \/ (s < ce /\ e >= ce)

\* a slip: end_time >= $3 for end_time > $3, a closed interval end
SqlOverlapClosedEnd(s, e, cs, ce) ==
    \/ (s <= cs /\ e >= cs)
    \/ (s < ce /\ e >= ce)
    \/ (s >= cs /\ e <= ce)

\* a slip: start_time <= $4 for start_time < $4, a closed interval start
SqlOverlapClosedStart(s, e, cs, ce) ==
    \/ (s <= cs /\ e > cs)
    \/ (s <= ce /\ e >= ce)
    \/ (s >= cs /\ e <= ce)

\* a slip: the third disjunct turned round (start_time <= $3 AND end_time >= $4)
SqlOverlapContainmentReversed(s, e, cs, ce) ==
    \/ (s <= cs /\ e > cs)
    \/ (s < ce /\ e >= ce)
    \/ (s <= cs /\ e >= ce)

\* the three-way OR of both room conflict queries: (s, e) the stored row's
\* start_time / end_time, (cs, ce) the candidate's ($3, $4)
SqlOverlap(s, e, cs, ce) ==
    \/ (s <= cs /\ e > cs)
    \/ (s < ce /\ e >= ce)
    \/ (s >= cs /\ e <= ce)

\* a slip: the create query filtering on status = 'pending'
CreateConflictRowsPending(table, roomId, date, startTime, endTime) ==
    { i \in 1 .. Len(table) :
        /\ table[i].room_id = roomId
        /\ table[i].date = date
        /\ table[i].status = "pending"
        /\ SqlOverlap(table[i].start_time, table[i].end_time, startTime, endTime) }

\* a slip: the create query without its room_id = $1 condition
CreateConflictRowsAnyRoom(table, roomId, date, startTime, endTime) ==
    { i \in 1 .. Len(table) :
        /\ table[i].date = date
        /\ table[i].status = "approved"
        /\ SqlOverlap(table[i].start_time, table[i].end_time, startTime, endTime) }

\* rows (ids) the create handler's conflictCheck query returns
CreateConflictRows(table, roomId, date, startTime, endTime) ==
    { i \in 1 .. Len(table) :
        /\ table[i].room_id = roomId
        /\ table[i].date = date
        /\ table[i].status = "approved"
        /\ SqlOverlap(table[i].start_time, table[i].end_time, startTime, endTime) }

\* a slip: _id = $5 for _id != $5
ApproveConflictRowsSelfOnly(table, reqData, requestId) ==
    { i \in 1 .. Len(table) :
        /\ table[i].room_id = reqData.room_id
        /\ table[i].date = reqData.date
        /\ table[i].status = "approved"
        /\ i = requestId
        /\ SqlOverlap(table[i].start_time, table[i].end_time,
                      reqData.start_time, reqData.end_time) }

\* rows (ids) the approve handler's conflictCheck query returns
ApproveConflictRows(table, reqData, requestId) ==
    { i \in 1 .. Len(table) :
        /\ table[i].room_id = reqData.room_id
        /\ table[i].date = reqData.date
        /\ table[i].status = "approved"
        /\ i # requestId
        /\ SqlOverlap(table[i].start_time, table[i].end_time,
                      reqData.start_time, reqData.end_time) }

\* INSERT INTO room_requests ... 'pending' (staff_id left to its default)
NewRequestRow(userId, resourceId, date, startTime, endTime) ==
    [ member_id |-> userId, room_id |-> resourceId, date |-> date,
      start_time |-> startTime, end_time |-> endTime,
      status |-> "pending", staff_id |-> NULL ]

\* INSERT INTO game_requests ... 'pending' (staff_id left to its default)
NewGameRequestRow(member_id, game_id, date, start_time, end_time) ==
    [ member_id |-> member_id, game_id |-> game_id, date |-> date,
      start_time |-> start_time, end_time |-> end_time,
      status |-> "pending", staff_id |-> NULL ]

\* a slip: the UPDATE without its WHERE _id = $3
UpdateStatusEveryRow(table, requestId, status, staffId) ==
    [ i \in 1 .. Len(table) |->
        [ table[i] EXCEPT !.status = status, !.staff_id = staffId ] ]

\* UPDATE ... SET status = $1, staff_id = $2 WHERE _id = $3
UpdateStatus(table, requestId, status, staffId) ==
    [ table EXCEPT ![requestId] =
        [ @ EXCEPT !.status = status, !.staff_id = staffId ] ]

\* express-validator chain of POST /rooms/request
ValidRoomRequestBody(roomId, date, startTime, endTime) ==
    /\ roomId \in Int
    /\ date \in Dates
    /\ startTime \in Times
    /\ endTime \in Times

\* ------------------------------------------------------------------ Init
\* table books with no row
NoBooks == [ b \in {} |-> [quantity |-> 0, available |-> 0] ]

NoData == [none |-> TRUE]

IdleHandler ==
    [ pc |-> "idle", op |-> "none", arg |-> NoData, reqData |-> NoData,
      resp |-> NoResponse ]

Init ==
    /\ rooms = {1}
    /\ roomRequests = << >>
    /\ gameRequests = << >>
    /\ books = NoBooks
    /\ borrowRequests = << >>
    /\ resp = NoResponse
    /\ handlers = [ h \in 1 .. MaxHandlers |-> IdleHandler ]

\* ------------------------------------------- room routes, one at a time
\* what a handler leaves behind: its response and the table after it
Outcome(response, table) == [resp |-> response, table |-> table]

\* a slip: POST /api/rooms/request without its conflictCheck
PostRoomRequestUnchecked(table, userId, roomId, date, startTime, endTime) ==
    IF ~ValidRoomRequestBody(roomId, date, startTime, endTime)
    THEN Outcome(Response(400, "errors"), table)
    ELSE IF roomId \notin rooms
    THEN Outcome(Response(404, "Room not found"), table)
    ELSE Outcome(Response(201, "created"),
                 Append(table, NewRequestRow(userId, roomId, date, startTime, endTime)))

\* a slip: POST /api/rooms/request without its roomCheck
PostRoomRequestNoRoomCheck(table, userId, roomId, date, startTime, endTime) ==
    IF ~ValidRoomRequestBody(roomId, date, startTime, endTime)
    THEN Outcome(Response(400, "errors"), table)
    ELSE IF CreateConflictRows(table, roomId, date, startTime, endTime) # {}
    THEN Outcome(Response(400, "Room is already booked for this time slot"), table)
    ELSE Outcome(Response(201, "created"),
                 Append(table, NewRequestRow(userId, roomId, date, startTime, endTime)))

\* the handler of POST /api/rooms/request, run to its response on `table`
PostRoomRequest(table, userId, roomId, date, startTime, endTime) ==
    IF ~ValidRoomRequestBody(roomId, date, startTime, endTime)
    THEN Outcome(Response(400, "errors"), table)
    ELSE IF roomId \notin rooms
    THEN Outcome(Response(404, "Room not found"), table)
    ELSE IF CreateConflictRows(table, roomId, date, startTime, endTime) # {}
    THEN Outcome(Response(400, "Room is already booked for this time slot"), table)
    ELSE Outcome(Response(201, "created"),
                 Append(table, NewRequestRow(userId, roomId, date, startTime, endTime)))

\* a slip: the conflict branch recording the approver before it answers
PutRoomRequestMarksStaff(table, staffId, requestId, status) ==
    IF status \notin {"approved", "rejected", "cancelled"}
    THEN Outcome(Response(400, "Invalid status"), table)
    ELSE IF status = "approved" /\ requestId \notin 1 .. Len(table)
    THEN Outcome(Response(404, "Request not found"), table)
    ELSE IF /\ status = "approved"
            /\ ApproveConflictRows(table, table[requestId], requestId) # {}
    THEN Outcome(Response(400,
                    "Conflict detected: Room is already booked for this time"),
                 UpdateStatus(table, requestId, table[requestId].status, staffId))
    ELSE IF requestId \in 1 .. Len(table)
    THEN Outcome(Response(200, "updated"),
                 UpdateStatus(table, requestId, status, staffId))
    ELSE Outcome(Response(404, "Request not found"), table)

\* a slip: 'pending' let into the status whitelist
PutRoomRequestAllowsPending(table, staffId, requestId, status) ==
    IF status \notin {"approved", "rejected", "cancelled", "pending"}
    THEN Outcome(Response(400, "Invalid status"), table)
    ELSE IF status = "approved" /\ requestId \notin 1 .. Len(table)
    THEN Outcome(Response(404, "Request not found"), table)
    ELSE IF /\ status = "approved"
            /\ ApproveConflictRows(table, table[requestId], requestId) # {}
    THEN Outcome(Response(400,
                    "Conflict detected: Room is already booked for this time"),
                 table)
    ELSE IF requestId \in 1 .. Len(table)
    THEN Outcome(Response(200, "updated"),
                 UpdateStatus(table, requestId, status, staffId))
    ELSE Outcome(Response(404, "Request not found"), table)

\* a slip: the conflict check run for every status, not only for 'approved'
PutRoomRequestChecksAll(table, staffId, requestId, status) ==
    IF status \notin {"approved", "rejected", "cancelled"}
    THEN Outcome(Response(400, "Invalid status"), table)
    ELSE IF requestId \notin 1 .. Len(table)
    THEN Outcome(Response(404, "Request not found"), table)
    ELSE IF ApproveConflictRows(table, table[requestId], requestId) # {}
    THEN Outcome(Response(400,
                    "Conflict detected: Room is already booked for this time"),
                 table)
    ELSE Outcome(Response(200, "updated"),
                 UpdateStatus(table, requestId, status, staffId))

\* the handler of PUT /api/rooms/requests/:id, run to its response on `table`
PutRoomRequest(table, staffId, requestId, status) ==
    IF status \notin {"approved", "rejected", "cancelled"}
    THEN Outcome(Response(400, "Invalid status"), table)
    ELSE IF status = "approved" /\ requestId \notin 1 .. Len(table)
    THEN Outcome(Response(404, "Request not found"), table)
    ELSE IF /\ status = "approved"
            /\ ApproveConflictRows(table, table[requestId], requestId) # {}
    THEN Outcome(Response(400,
                    "Conflict detected: Room is already booked for this time"),
                 table)
    ELSE IF requestId \in 1 .. Len(table)
    THEN Outcome(Response(200, "updated"),
                 UpdateStatus(table, requestId, status, staffId))
    ELSE Outcome(Response(404, "Request not found"), table)

\* middleware isAdmin: the caller's role is 'admin'
isAdmin(userId) == userId \in Admins

\* PUT /api/rooms/requests/:id as user `userId` sends it: verifyToken, isAdmin,
\* then the handler
PutRoomRequestAs(table, userId, requestId, status) ==
    IF ~isAdmin(userId)
    THEN Outcome(Response(403, "Access denied. Admin only."), table)
    ELSE PutRoomRequest(table, userId, requestId, status)

\* POST /api/rooms/request is handled
CreateRoomRequest(userId, roomId, date, startTime, endTime) ==
    LET out == PostRoomRequest(roomRequests, userId, roomId, date, startTime, endTime)
    IN  /\ Len(out.table) <= MaxRequests
        /\ roomRequests' = out.table
        /\ resp' = out.resp
        /\ UNCHANGED <<books, borrowRequests, rooms, gameRequests, handlers>>

\* PUT /api/rooms/requests/:id is handled
UpdateRoomRequest(staffId, requestId, status) ==
    LET out == PutRoomRequest(roomRequests, staffId, requestId, status)
    IN  /\ roomRequests' = out.table
        /\ resp' = out.resp
        /\ UNCHANGED <<books, borrowRequests, rooms, gameRequests, handlers>>

Next ==
    \/ \E u \in Members, r \in RoomIds, d \in Dates, p \in InputTimePairs :
          CreateRoomRequest(u, r, d, p[1], p[2])
    \/ \E a \in Admins, i \in 1 .. MaxRequests + 1, st \in PutStatuses :
          UpdateRoomRequest(a, i, st)

Spec == Init /\ [][Next]_vars

\* ------------------------------ room routes, two rooms, one at a time
\* the room routes as above with two rows in table rooms and shorter days
ShortTimes == 0 .. MaxTime - 1

InitTwoRooms ==
    /\ rooms = {1, 2}
    /\ roomRequests = << >>
    /\ gameRequests = << >>
    /\ books = NoBooks
    /\ borrowRequests = << >>
    /\ resp = NoResponse
    /\ handlers = [ h \in 1 .. MaxHandlers |-> IdleHandler ]

NextTwoRooms ==
    \/ \E u \in Members, r \in RoomIds, d \in Dates, s \in ShortTimes, e \in ShortTimes :
          CreateRoomRequest(u, r, d, s, e)
    \/ \E a \in Admins, i \in 1 .. MaxRequests + 1, st \in PutStatuses :
          UpdateRoomRequest(a, i, st)

SpecTwoRooms == InitTwoRooms /\ [][NextTwoRooms]_vars

\* ------------------------------------------- game routes, one at a time
\* POST /api/games/request; a missing body field is NULL
CreateGameRequest(member_id, game_id, date, start_time, end_time) ==
    /\ UNCHANGED <<books, borrowRequests, rooms, roomRequests, handlers>>
    /\ IF member_id = NULL \/ game_id = NULL \/ date = NULL
       THEN /\ resp' = Response(400, "All fields are required")
            /\ UNCHANGED gameRequests
       ELSE /\ Len(gameRequests) < MaxRequests
            /\ gameRequests' =
                  Append(gameRequests,
                         NewGameRequestRow(member_id, game_id, date, start_time, end_time))
            /\ resp' = Response(201, "created")

\* a slip: PUT /api/games/requests/:id without its validStatuses check
UpdateGameRequestAnyStatus(staff_id, id, status) ==
    /\ UNCHANGED <<books, borrowRequests, rooms, roomRequests, handlers>>
    /\ IF id \in 1 .. Len(gameRequests)
       THEN /\ gameRequests' = UpdateStatus(gameRequests, id, status, staff_id)
            /\ resp' = Response(200, "updated")
       ELSE /\ resp' = Response(404, "Game request not found")
            /\ UNCHANGED gameRequests

\* PUT /api/games/requests/:id
UpdateGameRequest(staff_id, id, status) ==
    /\ UNCHANGED <<books, borrowRequests, rooms, roomRequests, handlers>>
    /\ IF status \notin {"approved", "rejected", "cancelled", "pending"}
       THEN /\ resp' = Response(400, "Invalid status")
            /\ UNCHANGED gameRequests
       ELSE IF id \in 1 .. Len(gameRequests)
       THEN /\ gameRequests' = UpdateStatus(gameRequests, id, status, staff_id)
            /\ resp' = Response(200, "updated")
       ELSE /\ resp' = Response(404, "Game request not found")
            /\ UNCHANGED gameRequests

NextGames ==
    \/ \E u \in Members, g \in GameIds \cup {NULL}, d \in Dates, s \in Times, e \in Times :
          CreateGameRequest(u, g, d, s, e)
    \/ \E a \in Admins, i \in 1 .. MaxRequests + 1, st \in PutStatuses \cup {"returned"} :
          UpdateGameRequest(a, i, st)

SpecGames == Init /\ [][NextGames]_vars

\* ------------------------ room and game routes together, one at a time
\* both routers serve the same database; requests for one date and one slot
SlotTimePairs == {<<0, 1>>}

NextBoth ==
    \/ \E u \in Members, r \in RoomIds, d \in ConcDates, p \in SlotTimePairs :
          CreateRoomRequest(u, r, d, p[1], p[2])
    \/ \E a \in Admins, i \in 1 .. MaxRequests + 1, st \in BodyStatuses :
          UpdateRoomRequest(a, i, st)
    \/ \E u \in Members, g \in GameIds \cup {NULL}, d \in ConcDates, p \in SlotTimePairs :
          CreateGameRequest(u, g, d, p[1], p[2])
    \/ \E a \in Admins, i \in 1 .. MaxRequests + 1, st \in BodyStatuses :
          UpdateGameRequest(a, i, st)

SpecBoth == Init /\ [][NextBoth]_vars

\* ------------------- room routes, handlers interleaved at each db.query
\* Every awaited db.query runs as one statement of its own (no transaction);
\* a step is one query together with the handler code up to the next query.
\* Each handler serves one HTTP request; once it has answered, a handler
\* keeps its response and, for a PUT or a return, the request it was about.

\* tables of pending rows for room 1: what POST /rooms/request alone builds
PendingTables ==
    UNION { [ 1 .. n -> { NewRequestRow(u, 1, d, s, e) :
                            u \in Members, d \in ConcDates, s \in Times, e \in Times } ] :
            n \in 0 .. MaxRequests }

InitConc ==
    /\ rooms = {1}
    /\ roomRequests \in PendingTables
    /\ gameRequests = << >>
    /\ books = NoBooks
    /\ borrowRequests = << >>
    /\ resp = NoResponse
    /\ handlers = [ h \in 1 .. MaxHandlers |-> IdleHandler ]

\* res.status(code).json(...): the handler is done
Reply(h, me, code, msg) ==
    handlers' = [ handlers EXCEPT ![h] =
                    [ me EXCEPT !.pc = "done", !.reqData = NoData,
                                !.arg = IF me.op \in {"put", "return"} THEN me.arg ELSE NoData,
                                !.resp = Response(code, msg) ] ]

Goto(h, me, pc) == handlers' = [ handlers EXCEPT ![h] = [ me EXCEPT !.pc = pc ] ]

\* POST /rooms/request: validators, then the roomCheck query
PostRoomCheck(h, userId, roomId, date, startTime, endTime) ==
    /\ handlers[h].pc = "idle"
    /\ UNCHANGED <<books, borrowRequests, rooms, roomRequests, gameRequests, resp>>
    /\ LET arg == [ userId |-> userId, roomId |-> roomId, date |-> date,
                    startTime |-> startTime, endTime |-> endTime ]
           me == [ IdleHandler EXCEPT !.op = "post", !.arg = arg ]
       IN  IF ~ValidRoomRequestBody(roomId, date, startTime, endTime)
           THEN Reply(h, me, 400, "errors")
           ELSE IF roomId \notin rooms
           THEN Reply(h, me, 404, "Room not found")
           ELSE Goto(h, me, "conflictCheck")

\* POST /rooms/request: the conflictCheck query
PostConflictCheck(h) ==
    /\ handlers[h].pc = "conflictCheck"
    /\ handlers[h].op = "post"
    /\ UNCHANGED <<books, borrowRequests, rooms, roomRequests, gameRequests, resp>>
    /\ LET a == handlers[h].arg
       IN  IF CreateConflictRows(roomRequests, a.roomId, a.date,
                                 a.startTime, a.endTime) # {}
           THEN Reply(h, handlers[h], 400, "Room is already booked for this time slot")
           ELSE Goto(h, handlers[h], "insert")

\* POST /rooms/request: the INSERT
PostInsert(h) ==
    /\ handlers[h].pc = "insert"
    /\ Len(roomRequests) < MaxRequests
    /\ UNCHANGED <<books, borrowRequests, rooms, gameRequests, resp>>
    /\ LET a == handlers[h].arg
       IN  roomRequests' =
              Append(roomRequests,
                     NewRequestRow(a.userId, a.roomId, a.date, a.startTime, a.endTime))
    /\ Reply(h, handlers[h], 201, "created")

\* PUT /rooms/requests/:id: the status whitelist, then the handler's first
\* query: the SELECT of the request when approving, the UPDATE otherwise
PutBegin(h, staffId, requestId, status) ==
    /\ handlers[h].pc = "idle"
    /\ UNCHANGED <<books, borrowRequests, rooms, gameRequests, resp>>
    /\ LET arg == [ staffId |-> staffId, requestId |-> requestId, status |-> status ]
           me == [ IdleHandler EXCEPT !.op = "put", !.arg = arg ]
       IN  IF status \notin {"approved", "rejected", "cancelled"}
           THEN /\ Reply(h, me, 400, "Invalid status")
                /\ UNCHANGED roomRequests
           ELSE IF status = "approved" /\ requestId \notin 1 .. Len(roomRequests)
           THEN /\ Reply(h, me, 404, "Request not found")
                /\ UNCHANGED roomRequests
           ELSE IF status = "approved"
           THEN /\ Goto(h, [ me EXCEPT !.reqData = roomRequests[requestId] ],
                        "conflictCheck")
                /\ UNCHANGED roomRequests
           ELSE IF requestId \in 1 .. Len(roomRequests)
           THEN /\ roomRequests' =
                      UpdateStatus(roomRequests, requestId, status, staffId)
                /\ Reply(h, me, 200, "updated")
           ELSE /\ Reply(h, me, 404, "Request not found")
                /\ UNCHANGED roomRequests

\* PUT /rooms/requests/:id, approving: the conflictCheck query
PutConflictCheck(h) ==
    /\ handlers[h].pc = "conflictCheck"
    /\ handlers[h].op = "put"
    /\ UNCHANGED <<books, borrowRequests, rooms, roomRequests, gameRequests, resp>>
    /\ IF ApproveConflictRows(roomRequests, handlers[h].reqData,
                              handlers[h].arg.requestId) # {}
       THEN Reply(h, handlers[h], 400,
                  "Conflict detected: Room is already booked for this time")
       ELSE Goto(h, handlers[h], "update")

\* PUT /rooms/requests/:id, approving: the UPDATE
PutUpdate(h) ==
    /\ handlers[h].pc = "update"
    /\ UNCHANGED <<books, borrowRequests, rooms, gameRequests, resp>>
    /\ LET a == handlers[h].arg
       IN  IF a.requestId \in 1 .. Len(roomRequests)
           THEN /\ roomRequests' =
                      UpdateStatus(roomRequests, a.requestId, a.status, a.staffId)
                /\ Reply(h, handlers[h], 200, "updated")
           ELSE /\ UNCHANGED roomRequests
                /\ Reply(h, handlers[h], 404, "Request not found")

NextConc ==
    \E h \in 1 .. MaxHandlers :
        \/ \E u \in Members, r \in RoomIds, d \in ConcDates, p \in InputTimePairs :
              PostRoomCheck(h, u, r, d, p[1], p[2])
        \/ PostConflictCheck(h)
        \/ PostInsert(h)
        \/ \E a \in Admins, i \in 1 .. MaxRequests + 1, st \in PutStatuses :
              PutBegin(h, a, i, st)
        \/ PutConflictCheck(h)
        \/ PutUpdate(h)

SpecConc == InitConc /\ [][NextConc]_vars

\* ------------------------------- book and borrow routes, one at a time
\* what a book or borrow handler leaves behind
BookOutcome(response, bks, brs) == [resp |-> response, books |-> bks, borrows |-> brs]

Min(a, b) == IF a <= b THEN a ELSE b

\* copies out on loan, as the book routes compute it
Borrowed(book) == book.quantity - book.available

\* ids of the borrow requests of the student for the book in one of `statuses`
BorrowRows(brs, studentId, bookId, statuses) ==
    { i \in 1 .. Len(brs) :
        /\ brs[i].student_id = studentId
        /\ brs[i].book_id = bookId
        /\ brs[i].status \in statuses }

\* SELECT COUNT(*) FROM borrow_requests WHERE book_id = $1 AND status = $2
CountRequests(brs, bookId, status) ==
    Cardinality({ i \in 1 .. Len(brs) : brs[i].book_id = bookId /\ brs[i].status = status })

\* book_id INT NOT NULL references books(_id): rows that keep the book from deletion
References(brs, bookId) == { i \in 1 .. Len(brs) : brs[i].book_id = bookId }

\* DELETE FROM books WHERE _id = $1
WithoutBook(bks, id) == [ b \in DOMAIN bks \ {id} |-> bks[b] ]

\* PUT /api/books/:id without the comparison of the new quantity with the
\* borrowed copies
PutBookNoBorrowedCheck(bks, brs, id, quantity) ==
    IF quantity \notin 0 .. MaxQuantity + 1
    THEN BookOutcome(Response(400, "errors"), bks, brs)
    ELSE IF id \notin DOMAIN bks
    THEN BookOutcome(Response(404, "Book not found"), bks, brs)
    ELSE IF quantity < 1
    THEN BookOutcome(Response(500, "Server error"), bks, brs)
    ELSE BookOutcome(Response(200, "book updated"),
                     [ bks EXCEPT ![id] = [ quantity |-> quantity,
                                            available |-> quantity - Borrowed(bks[id]) ] ],
                     brs)

\* PUT /api/books/:id
PutBook(bks, brs, id, quantity) ==
    IF quantity \notin 0 .. MaxQuantity + 1
    THEN BookOutcome(Response(400, "errors"), bks, brs)
    ELSE IF id \notin DOMAIN bks
    THEN BookOutcome(Response(404, "Book not found"), bks, brs)
    ELSE IF quantity < Borrowed(bks[id])
    THEN BookOutcome(Response(400, "Quantity cannot be less than borrowed copies"), bks, brs)
    ELSE IF quantity < 1
    THEN BookOutcome(Response(500, "Server error"), bks, brs)
    ELSE BookOutcome(Response(200, "book updated"),
                     [ bks EXCEPT ![id] = [ quantity |-> quantity,
                                            available |-> quantity - Borrowed(bks[id]) ] ],
                     brs)

\* PUT /api/admin/books/:id
AdminPutBook(bks, brs, id, quantity) ==
    IF id \notin DOMAIN bks
    THEN BookOutcome(Response(404, "Book not found"), bks, brs)
    ELSE LET book == bks[id]
             q == IF quantity = NoQuantity THEN book.quantity ELSE quantity
             available == Min(book.available + (q - book.quantity), q)
         IN  IF q < 1
             THEN BookOutcome(Response(500, "Server error"), bks, brs)
             ELSE BookOutcome(Response(200, "book updated by admin"),
                              [ bks EXCEPT ![id] = [ quantity |-> q,
                                                     available |-> available ] ],
                              brs)

\* the end of a delete handler without the count of pending requests
DeleteUnlessPendingUncounted(bks, brs, id) ==
    IF References(brs, id) # {}
    THEN BookOutcome(Response(500, "Server error"), bks, brs)
    ELSE BookOutcome(Response(200, "Book deleted successfully"), WithoutBook(bks, id), brs)

\* the end of both delete handlers: the pending count, then the DELETE
DeleteUnlessPending(bks, brs, id) ==
    IF CountRequests(brs, id, "pending") > 0
    THEN BookOutcome(Response(400, "Cannot delete book with pending borrow requests"),
                     bks, brs)
    ELSE IF References(brs, id) # {}
    THEN BookOutcome(Response(500, "Server error"), bks, brs)
    ELSE BookOutcome(Response(200, "Book deleted successfully"), WithoutBook(bks, id), brs)

\* DELETE /api/books/:id
DeleteBook(bks, brs, id) ==
    IF id \notin DOMAIN bks
    THEN BookOutcome(Response(404, "Book not found"), bks, brs)
    ELSE IF Borrowed(bks[id]) > 0
    THEN BookOutcome(Response(400, "Cannot delete book with active borrows"), bks, brs)
    ELSE DeleteUnlessPending(bks, brs, id)

\* DELETE /api/admin/books/:id
AdminDeleteBook(bks, brs, id) ==
    IF id \notin DOMAIN bks
    THEN BookOutcome(Response(404, "Book not found"), bks, brs)
    ELSE IF bks[id].quantity # bks[id].available
    THEN BookOutcome(Response(400, "Cannot delete book with active borrows"), bks, brs)
    ELSE DeleteUnlessPending(bks, brs, id)

\* INSERT INTO borrow_requests ... 'pending'
NewBorrowRow(studentId, bookId) ==
    [ student_id |-> studentId, book_id |-> bookId, status |-> "pending" ]

\* the message of the 400 that answers a second request for the book
ExistingMsg(status) ==
    IF status = "pending" THEN "You already have a pending request for this book"
    ELSE "You have already borrowed this book"

\* POST /api/student/borrow-request
PostBorrowRequest(bks, brs, studentId, bookId) ==
    IF bookId = NULL
    THEN BookOutcome(Response(400, "errors"), bks, brs)
    ELSE IF bookId \notin DOMAIN bks
    THEN BookOutcome(Response(404, "Book not found"), bks, brs)
    ELSE IF bks[bookId].available <= 0
    THEN BookOutcome(Response(400, "Book is not available for borrowing"), bks, brs)
    ELSE LET exist == BorrowRows(brs, studentId, bookId, {"pending", "approved"})
         IN  IF exist # {}
             THEN BookOutcome(Response(400,
                                ExistingMsg(brs[CHOOSE i \in exist : \A j \in exist : i <= j].status)),
                              bks, brs)
             ELSE BookOutcome(Response(201, "created"), bks,
                              Append(brs, NewBorrowRow(studentId, bookId)))

\* POST /api/student/borrow-requests/:requestId/return
ReturnBorrowedBook(bks, brs, studentId, requestId) ==
    IF ~ /\ requestId \in 1 .. Len(brs)
         /\ brs[requestId].student_id = studentId
         /\ brs[requestId].status = "approved"
         /\ brs[requestId].book_id \in DOMAIN bks
    THEN BookOutcome(Response(404, "Borrow request not found or not approved"), bks, brs)
    ELSE BookOutcome(Response(200, "returned"),
                     [ bks EXCEPT ![brs[requestId].book_id].available = @ + 1 ],
                     [ brs EXCEPT ![requestId].status = "returned" ])

\* PUT /api/books/:id is handled
UpdateBook(id, quantity) ==
    LET out == PutBook(books, borrowRequests, id, quantity)
    IN  /\ Len(out.borrows) <= MaxBorrows
        /\ books' = out.books
        /\ borrowRequests' = out.borrows
        /\ resp' = out.resp
        /\ UNCHANGED <<rooms, roomRequests, gameRequests, handlers>>

\* PUT /api/admin/books/:id is handled
AdminUpdateBook(id, quantity) ==
    LET out == AdminPutBook(books, borrowRequests, id, quantity)
    IN  /\ Len(out.borrows) <= MaxBorrows
        /\ books' = out.books
        /\ borrowRequests' = out.borrows
        /\ resp' = out.resp
        /\ UNCHANGED <<rooms, roomRequests, gameRequests, handlers>>

\* DELETE /api/books/:id is handled
RemoveBook(id) ==
    LET out == DeleteBook(books, borrowRequests, id)
    IN  /\ Len(out.borrows) <= MaxBorrows
        /\ books' = out.books
        /\ borrowRequests' = out.borrows
        /\ resp' = out.resp
        /\ UNCHANGED <<rooms, roomRequests, gameRequests, handlers>>

\* DELETE /api/admin/books/:id is handled
AdminRemoveBook(id) ==
    LET out == AdminDeleteBook(books, borrowRequests, id)
    IN  /\ Len(out.borrows) <= MaxBorrows
        /\ books' = out.books
        /\ borrowRequests' = out.borrows
        /\ resp' = out.resp
        /\ UNCHANGED <<rooms, roomRequests, gameRequests, handlers>>

\* POST /api/student/borrow-request is handled
CreateBorrowRequest(studentId, bookId) ==
    LET out == PostBorrowRequest(books, borrowRequests, studentId, bookId)
    IN  /\ Len(out.borrows) <= MaxBorrows
        /\ books' = out.books
        /\ borrowRequests' = out.borrows
        /\ resp' = out.resp
        /\ UNCHANGED <<rooms, roomRequests, gameRequests, handlers>>

\* POST /api/student/borrow-requests/:requestId/return is handled
ReturnBook(studentId, requestId) ==
    LET out == ReturnBorrowedBook(books, borrowRequests, studentId, requestId)
    IN  /\ Len(out.borrows) <= MaxBorrows
        /\ books' = out.books
        /\ borrowRequests' = out.borrows
        /\ resp' = out.resp
        /\ UNCHANGED <<rooms, roomRequests, gameRequests, handlers>>

\* borrow_requests as the borrow routes and the admin's processing of requests
\* leave it: per student and book at most one request pending or approved
BorrowTables ==
    { brs \in UNION { [ 1 .. n -> { [ student_id |-> s, book_id |-> 1, status |-> st ] :
                                      s \in Students, st \in BorrowStatuses } ] :
                      n \in 0 .. MaxBorrows } :
        \A s \in Students : Cardinality(BorrowRows(brs, s, 1, {"pending", "approved"})) <= 1 }

\* book 1 with 1 .. MaxQuantity copies, one copy out for each approved request
InitBooks ==
    /\ rooms = {1}
    /\ roomRequests = << >>
    /\ gameRequests = << >>
    /\ resp = NoResponse
    /\ handlers = [ h \in 1 .. MaxHandlers |-> IdleHandler ]
    /\ borrowRequests \in BorrowTables
    /\ \E q \in 1 .. MaxQuantity :
          /\ CountRequests(borrowRequests, 1, "approved") <= q
          /\ books = [ b \in {1} |->
                         [ quantity |-> q,
                           available |-> q - CountRequests(borrowRequests, 1, "approved") ] ]

NextBooks ==
    \/ \E id \in BookIds, q \in QuantityInputs : UpdateBook(id, q)
    \/ \E id \in BookIds, q \in QuantityInputs : AdminUpdateBook(id, q)
    \/ \E id \in BookIds : RemoveBook(id)
    \/ \E id \in BookIds : AdminRemoveBook(id)
    \/ \E s \in Students, b \in BookIds \cup {NULL} : CreateBorrowRequest(s, b)
    \/ \E s \in Students, i \in 1 .. MaxBorrows + 1 : ReturnBook(s, i)

SpecBooks == InitBooks /\ [][NextBooks]_vars

\* ----------------- borrow routes, handlers interleaved at each db.query
\* POST /student/borrow-request and POST /student/borrow-requests/:id/return
\* with every awaited db.query as a statement of its own, as for the rooms.

\* POST /student/borrow-request: validators, then the bookQ query
BorrowBookQ(h, studentId, bookId) ==
    /\ handlers[h].pc = "idle"
    /\ UNCHANGED <<books, borrowRequests, rooms, roomRequests, gameRequests, resp>>
    /\ LET arg == [ studentId |-> studentId, bookId |-> bookId ]
           me == [ IdleHandler EXCEPT !.op = "borrow", !.arg = arg ]
       IN  IF bookId = NULL
           THEN Reply(h, me, 400, "errors")
           ELSE IF bookId \notin DOMAIN books
           THEN Reply(h, me, 404, "Book not found")
           ELSE IF books[bookId].available <= 0
           THEN Reply(h, me, 400, "Book is not available for borrowing")
           ELSE Goto(h, me, "existQ")

\* POST /student/borrow-request: the existQ query
BorrowExistQ(h) ==
    /\ handlers[h].pc = "existQ"
    /\ UNCHANGED <<books, borrowRequests, rooms, roomRequests, gameRequests, resp>>
    /\ LET a == handlers[h].arg
           exist == BorrowRows(borrowRequests, a.studentId, a.bookId,
                               {"pending", "approved"})
       IN  IF exist # {}
           THEN Reply(h, handlers[h], 400,
                      ExistingMsg(borrowRequests[CHOOSE i \in exist :
                                                   \A j \in exist : i <= j].status))
           ELSE Goto(h, handlers[h], "insert")

\* POST /student/borrow-request: the INSERT
BorrowInsert(h) ==
    /\ handlers[h].pc = "insert"
    /\ Len(borrowRequests) < MaxBorrows
    /\ UNCHANGED <<books, rooms, roomRequests, gameRequests, resp>>
    /\ LET a == handlers[h].arg
       IN  IF a.bookId \in DOMAIN books
           THEN /\ borrowRequests' =
                      Append(borrowRequests, NewBorrowRow(a.studentId, a.bookId))
                /\ Reply(h, handlers[h], 201, "created")
           ELSE /\ UNCHANGED borrowRequests
                /\ Reply(h, handlers[h], 500, "Server error")

\* POST /student/borrow-requests/:requestId/return: the SELECT of the
\* caller's approved request
ReturnSelect(h, studentId, requestId) ==
    /\ handlers[h].pc = "idle"
    /\ UNCHANGED <<books, borrowRequests, rooms, roomRequests, gameRequests, resp>>
    /\ LET arg == [ studentId |-> studentId, requestId |-> requestId ]
           me == [ IdleHandler EXCEPT !.op = "return", !.arg = arg ]
       IN  IF /\ requestId \in 1 .. Len(borrowRequests)
              /\ borrowRequests[requestId].student_id = studentId
              /\ borrowRequests[requestId].status = "approved"
              /\ borrowRequests[requestId].book_id \in DOMAIN books
           THEN Goto(h, [ me EXCEPT !.reqData = borrowRequests[requestId] ],
                     "updateBook")
           ELSE Reply(h, me, 404, "Borrow request not found or not approved")

\* the return: UPDATE books SET available = available + 1
ReturnUpdateBook(h) ==
    /\ handlers[h].pc = "updateBook"
    /\ UNCHANGED <<borrowRequests, rooms, roomRequests, gameRequests, resp>>
    /\ LET bookId == handlers[h].reqData.book_id
       IN  books' = IF bookId \in DOMAIN books
                    THEN [ books EXCEPT ![bookId].available = @ + 1 ]
                    ELSE books
    /\ Goto(h, handlers[h], "updateRequest")

\* the return: UPDATE borrow_requests SET status = 'returned' WHERE _id = $2
ReturnUpdateRequest(h) ==
    /\ handlers[h].pc = "updateRequest"
    /\ UNCHANGED <<books, rooms, roomRequests, gameRequests, resp>>
    /\ LET requestId == handlers[h].arg.requestId
       IN  borrowRequests' = IF requestId \in 1 .. Len(borrowRequests)
                             THEN [ borrowRequests EXCEPT ![requestId].status = "returned" ]
                             ELSE borrowRequests
    /\ Reply(h, handlers[h], 200, "returned")

NextBorrow ==
    \E h \in 1 .. MaxHandlers :
        \/ \E s \in Students, b \in BookIds \cup {NULL} : BorrowBookQ(h, s, b)
        \/ BorrowExistQ(h)
        \/ BorrowInsert(h)
        \/ \E s \in Students, i \in 1 .. MaxBorrows + 1 : ReturnSelect(h, s, i)
        \/ ReturnUpdateBook(h)
        \/ ReturnUpdateRequest(h)

SpecBorrow == InitBooks /\ [][NextBorrow]_vars

\* ============================================================ properties
\* half-open interval intersection, [s1, e1) against [s2, e2)
Intersect(s1, e1, s2, e2) == s1 < e2 /\ s2 < e1

SameSlot(a, b) == a.room_id = b.room_id /\ a.date = b.date

SameGameSlot(a, b) == a.game_id = b.game_id /\ a.date = b.date

RowsIntersect(a, b) == Intersect(a.start_time, a.end_time, b.start_time, b.end_time)

NonEmpty(a) == a.start_time < a.end_time

CreatedMsg == "Room is already booked for this time slot"

ApproveMsg == "Conflict detected: Room is already booked for this time"

\* an approved request of the table on (roomId, date) whose interval intersects [s, e)
HasApprovedOverlap(table, roomId, date, s, e) ==
    \E i \in 1 .. Len(table) :
        /\ table[i].room_id = roomId
        /\ table[i].date = date
        /\ table[i].status = "approved"
        /\ Intersect(table[i].start_time, table[i].end_time, s, e)

\* C1: after any sequence of room-request operations handled one at a time, two
\* distinct approved room requests on the same room and date never have
\* intersecting [start_time, end_time) intervals.
C1_NoApprovedOverlap ==
    \A i, j \in 1 .. Len(roomRequests) :
        ( /\ i # j
          /\ roomRequests[i].status = "approved"
          /\ roomRequests[j].status = "approved"
          /\ SameSlot(roomRequests[i], roomRequests[j]) )
        => ~RowsIntersect(roomRequests[i], roomRequests[j])

\* two approved bookings share a room and a date, the second just approved
C1_Witness ==
    /\ resp = Response(200, "updated")
    /\ \E i, j \in 1 .. Len(roomRequests) :
          /\ i # j
          /\ roomRequests[i].status = "approved"
          /\ roomRequests[j].status = "approved"
          /\ SameSlot(roomRequests[i], roomRequests[j])
          /\ NonEmpty(roomRequests[i])
          /\ NonEmpty(roomRequests[j])

\* C2: of two approvals of different pending requests that overlap on one room
\* and date, run concurrently, at most one answers 200; the other gets the
\* conflict error and its request stays pending.
C2_AtMostOneApproval ==
    \A h1, h2 \in 1 .. MaxHandlers :
        ( /\ h1 # h2
          /\ handlers[h1].pc = "done" /\ handlers[h1].op = "put"
          /\ handlers[h2].pc = "done" /\ handlers[h2].op = "put"
          /\ handlers[h1].arg.status = "approved"
          /\ handlers[h2].arg.status = "approved"
          /\ handlers[h1].arg.requestId # handlers[h2].arg.requestId
          /\ handlers[h1].arg.requestId \in 1 .. Len(roomRequests)
          /\ handlers[h2].arg.requestId \in 1 .. Len(roomRequests)
          /\ LET r1 == roomRequests[handlers[h1].arg.requestId]
                 r2 == roomRequests[handlers[h2].arg.requestId]
             IN  /\ SameSlot(r1, r2)
                 /\ NonEmpty(r1) /\ NonEmpty(r2)
                 /\ RowsIntersect(r1, r2)
          /\ handlers[h1].resp.code = 200 )
        => /\ handlers[h2].resp = Response(400, ApproveMsg)
           /\ roomRequests[handlers[h2].arg.requestId].status = "pending"

\* C3: while an approval stands between its conflict SELECT and its UPDATE, no
\* request that intersects it on its room and date is approved: the check it
\* passed is still true when it writes.
C3_CheckNotStale ==
    \A h \in 1 .. MaxHandlers :
        (handlers[h].pc = "update" /\ NonEmpty(handlers[h].reqData))
        => ~ \E j \in 1 .. Len(roomRequests) :
                /\ j # handlers[h].arg.requestId
                /\ roomRequests[j].status = "approved"
                /\ SameSlot(roomRequests[j], handlers[h].reqData)
                /\ NonEmpty(roomRequests[j])
                /\ RowsIntersect(roomRequests[j], handlers[h].reqData)

\* C4: two distinct approved game requests for the same game and date never
\* have intersecting [start_time, end_time) intervals.
C4_GamesNoApprovedOverlap ==
    \A i, j \in 1 .. Len(gameRequests) :
        ( /\ i # j
          /\ gameRequests[i].status = "approved"
          /\ gameRequests[j].status = "approved"
          /\ SameGameSlot(gameRequests[i], gameRequests[j])
          /\ NonEmpty(gameRequests[i])
          /\ NonEmpty(gameRequests[j]) )
        => ~RowsIntersect(gameRequests[i], gameRequests[j])

\* C5: for a stored approved row [s, e) and a candidate [cs, ce), both
\* non-empty, the create query and the approve query each report the row
\* exactly when s < ce and cs < e, and so agree with each other.
C5_OverlapIsHalfOpen ==
    \A i \in 1 .. Len(roomRequests) :
        LET r == roomRequests[i]
        IN  (r.status = "approved" /\ NonEmpty(r)) =>
              /\ \A cs, ce \in Times :
                    cs < ce =>
                      ( i \in CreateConflictRows(roomRequests, r.room_id, r.date, cs, ce)
                        <=> Intersect(r.start_time, r.end_time, cs, ce) )
              /\ \A j \in 1 .. Len(roomRequests) :
                    LET c == roomRequests[j]
                    IN  (j # i /\ SameSlot(c, r) /\ NonEmpty(c)) =>
                          /\ i \in ApproveConflictRows(roomRequests, c, j)
                               <=> RowsIntersect(r, c)
                          /\ i \in ApproveConflictRows(roomRequests, c, j)
                               <=> i \in CreateConflictRows(roomRequests, c.room_id,
                                            c.date, c.start_time, c.end_time)

\* an approved booking and another request that intersects it on its room and date
C5_Witness ==
    \E i, j \in 1 .. Len(roomRequests) :
        /\ i # j
        /\ roomRequests[i].status = "approved"
        /\ roomRequests[j].status = "pending"
        /\ SameSlot(roomRequests[i], roomRequests[j])
        /\ NonEmpty(roomRequests[i])
        /\ NonEmpty(roomRequests[j])
        /\ RowsIntersect(roomRequests[i], roomRequests[j])
        /\ roomRequests[i].start_time < roomRequests[j].start_time
        /\ roomRequests[j].end_time < roomRequests[i].end_time

\* the table holding only row r, approved
ApprovedAlone(r) == UpdateStatus(<<r>>, 1, "approved", CHOOSE a \in Admins : TRUE)

\* C6: for two stored room requests X and Y of one room and date (Y a
\* non-empty interval), the create check of candidate X against approved Y
\* answers as the create check of candidate Y against approved X.
C6_CheckSymmetric ==
    \A i, j \in 1 .. Len(roomRequests) :
        LET x == roomRequests[i]
            y == roomRequests[j]
        IN  (SameSlot(x, y) /\ NonEmpty(y)) =>
              ( CreateConflictRows(ApprovedAlone(y), x.room_id, x.date,
                                   x.start_time, x.end_time) # {}
                <=> CreateConflictRows(ApprovedAlone(x), y.room_id, y.date,
                                       y.start_time, y.end_time) # {} )

\* C7: a POST /rooms/request that meets an overlapping approved request on its
\* room and date answers 400 'Room is already booked for this time slot' and
\* leaves table room_requests as it was.
C7_CreateFailsClosed ==
    \A u \in Members, r \in RoomIds, d \in Dates, p \in InputTimePairs :
        ( /\ ValidRoomRequestBody(r, d, p[1], p[2])
          /\ r \in rooms
          /\ \/ HasApprovedOverlap(roomRequests, r, d, p[1], p[2])
             \/ CreateConflictRows(roomRequests, r, d, p[1], p[2]) # {} )
        => LET out == PostRoomRequest(roomRequests, u, r, d, p[1], p[2])
           IN  /\ out.resp = Response(400, CreatedMsg)
               /\ out.table = roomRequests

\* a create was refused for conflict while an approved booking is stored
C7_Witness ==
    /\ resp = Response(400, CreatedMsg)
    /\ \E i \in 1 .. Len(roomRequests) :
          roomRequests[i].status = "approved" /\ NonEmpty(roomRequests[i])

\* C8 as stated: a request created while an overlapping approved booking
\* exists on its room and date is stored as pending (approved A 10:00-11:00,
\* then B 10:30-10:45 created).
C8_CreatedDespiteOverlap ==
    \A u \in Members, r \in RoomIds, d \in Dates, p \in InputTimePairs :
        ( /\ ValidRoomRequestBody(r, d, p[1], p[2])
          /\ r \in rooms
          /\ p[1] < p[2]
          /\ \E i \in 1 .. Len(roomRequests) :
                /\ roomRequests[i].status = "approved"
                /\ roomRequests[i].room_id = r
                /\ roomRequests[i].date = d
                /\ roomRequests[i].start_time < p[1]
                /\ p[2] < roomRequests[i].end_time )
        => LET out == PostRoomRequest(roomRequests, u, r, d, p[1], p[2])
           IN  /\ out.resp = Response(201, "created")
               /\ out.table = Append(roomRequests, NewRequestRow(u, r, d, p[1], p[2]))

\* C8 as amended: a request just created (201) is the last row, is pending, and
\* intersects no approved request on its room and date: with A approved for
\* 10:00-11:00, creating B for 10:30-10:45 is refused and B is not stored.
C8_CreatedOnlyWithoutOverlap ==
    resp = Response(201, "created") =>
        LET n == Len(roomRequests)
        IN  /\ n >= 1
            /\ roomRequests[n].status = "pending"
            /\ \A j \in 1 .. n :
                  ( /\ j # n
                    /\ roomRequests[j].status = "approved"
                    /\ SameSlot(roomRequests[j], roomRequests[n]) )
                  => ~RowsIntersect(roomRequests[j], roomRequests[n])

\* a request was just created next to an approved booking on its room and date
C8_Witness ==
    /\ resp = Response(201, "created")
    /\ Len(roomRequests) = 2
    /\ roomRequests[1].status = "approved"
    /\ SameSlot(roomRequests[1], roomRequests[2])
    /\ NonEmpty(roomRequests[1])
    /\ NonEmpty(roomRequests[2])

\* C9: approving a pending request P while another request that intersects P
\* on its room and date is approved is refused: P is not approved.
C9_ApprovalRechecks ==
    \A a \in Admins, i \in 1 .. Len(roomRequests) :
        ( /\ roomRequests[i].status = "pending"
          /\ \E j \in 1 .. Len(roomRequests) :
                /\ j # i
                /\ roomRequests[j].status = "approved"
                /\ SameSlot(roomRequests[j], roomRequests[i])
                /\ RowsIntersect(roomRequests[j], roomRequests[i]) )
        => LET out == PutRoomRequest(roomRequests, a, i, "approved")
           IN  /\ out.table[i].status # "approved"
               /\ out.resp.code = 400

\* an approval was refused: a pending request intersects an approved one
C9_Witness ==
    /\ resp.msg = ApproveMsg
    /\ \E i, j \in 1 .. Len(roomRequests) :
          /\ roomRequests[i].status = "pending"
          /\ roomRequests[j].status = "approved"
          /\ SameSlot(roomRequests[j], roomRequests[i])
          /\ NonEmpty(roomRequests[i])
          /\ NonEmpty(roomRequests[j])
          /\ RowsIntersect(roomRequests[j], roomRequests[i])

\* C10: an approval of a pending request that finds a conflict answers 400
\* 'Conflict detected: ...', not the creation error, and leaves the request's
\* status and staff_id (and the whole table) as they were.
C10_ConflictLeavesPending ==
    \A a \in Admins, i \in 1 .. Len(roomRequests) :
        ( /\ roomRequests[i].status = "pending"
          /\ ApproveConflictRows(roomRequests, roomRequests[i], i) # {} )
        => LET out == PutRoomRequest(roomRequests, a, i, "approved")
           IN  /\ out.resp = Response(400, ApproveMsg)
               /\ out.resp.msg # CreatedMsg
               /\ out.table[i].status = "pending"
               /\ out.table[i].staff_id = roomRequests[i].staff_id
               /\ out.table = roomRequests

\* an approval was refused and the refused request is pending with no approver
C10_Witness ==
    /\ resp = Response(400, ApproveMsg)
    /\ \E i \in 1 .. Len(roomRequests) :
          /\ roomRequests[i].status = "pending"
          /\ roomRequests[i].staff_id = NULL
          /\ ApproveConflictRows(roomRequests, roomRequests[i], i) # {}

\* C11: no PUT /rooms/requests/:id, whatever its id and status, leaves a
\* request pending that was not pending before it: a request that is approved
\* (or rejected, or cancelled) is never pending again.
C11_ApprovedNeverPending ==
    \A a \in Admins, id \in 1 .. MaxRequests + 1, st \in BodyStatuses :
        LET out == PutRoomRequest(roomRequests, a, id, st)
        IN  /\ Len(out.table) = Len(roomRequests)
            /\ \A i \in 1 .. Len(roomRequests) :
                  roomRequests[i].status # "pending"
                  => out.table[i].status # "pending"

\* a PUT was refused for its status while an approved request is stored
C11_Witness ==
    /\ resp = Response(400, "Invalid status")
    /\ \E i \in 1 .. Len(roomRequests) :
          roomRequests[i].status = "approved" /\ roomRequests[i].staff_id \in Admins

\* C12: once a game request is approved, no step of the game routes makes it
\* pending again.
C12_GameApprovedNeverPending ==
    [][ \A i \in 1 .. Len(gameRequests) :
            gameRequests[i].status = "approved"
            => gameRequests'[i].status # "pending" ]_vars

\* C13: a PUT /rooms/requests/:id changes the status of a request only when
\* that request is pending: a rejected or cancelled request is never moved to
\* approved, and rejected / cancelled are entered from pending only.
C13_TransitionsOnlyFromPending ==
    \A a \in Admins, i \in 1 .. Len(roomRequests), st \in BodyStatuses :
        LET out == PutRoomRequest(roomRequests, a, i, st)
        IN  /\ roomRequests[i].status \in {"rejected", "cancelled"}
               => out.table[i].status # "approved"
            /\ ( /\ out.table[i].status \in {"rejected", "cancelled"}
                 /\ out.table[i].status # roomRequests[i].status )
               => roomRequests[i].status = "pending"

\* C14: a PUT /rooms/requests/:id with status rejected or cancelled on an
\* existing request answers 200 and writes that status whatever approved
\* bookings overlap the request, and it makes no request approved: every
\* request approved after it was approved before it.
C14_RejectCancelUnchecked ==
    \A a \in Admins, i \in 1 .. Len(roomRequests), st \in {"rejected", "cancelled"} :
        LET out == PutRoomRequest(roomRequests, a, i, st)
        IN  /\ out.resp = Response(200, "updated")
            /\ out.table = UpdateStatus(roomRequests, i, st, a)
            /\ \A j \in 1 .. Len(out.table) :
                  out.table[j].status = "approved"
                  => j # i /\ roomRequests[j].status = "approved"

\* a request was rejected or cancelled while an approved booking of its room
\* and date intersects it
C14_Witness ==
    /\ resp = Response(200, "updated")
    /\ \E i, j \in 1 .. Len(roomRequests) :
          /\ i # j
          /\ roomRequests[i].status \in {"rejected", "cancelled"}
          /\ roomRequests[j].status = "approved"
          /\ SameSlot(roomRequests[i], roomRequests[j])
          /\ NonEmpty(roomRequests[i])
          /\ NonEmpty(roomRequests[j])
          /\ RowsIntersect(roomRequests[i], roomRequests[j])

\* the approved requests of the table on (roomId, date), and nothing else
ApprovedOn(table, roomId, date) ==
    SelectSeq(table, LAMBDA row : /\ row.status = "approved"
                                  /\ row.room_id = roomId
                                  /\ row.date = date)

\* C15: a POST /rooms/request answers the conflict error only when an approved
\* request is stored for its room and its date, and its answer is the one it
\* gives with every pending, rejected and cancelled request and every request
\* of another room or another date taken out of the table.
C15_OnlyApprovedSameSlotBlock ==
    \A u \in Members, r \in RoomIds, d \in Dates, s \in ShortTimes, e \in ShortTimes :
        LET out == PostRoomRequest(roomRequests, u, r, d, s, e)
        IN  /\ out.resp = Response(400, CreatedMsg)
               => \E i \in 1 .. Len(roomRequests) :
                     /\ roomRequests[i].status = "approved"
                     /\ roomRequests[i].room_id = r
                     /\ roomRequests[i].date = d
            /\ out.resp = PostRoomRequest(ApprovedOn(roomRequests, r, d), u, r, d, s, e).resp

\* a request was created for the time an approved booking holds in another
\* room on the same date
C15_Witness ==
    /\ resp = Response(201, "created")
    /\ Len(roomRequests) = 2
    /\ roomRequests[1].status = "approved"
    /\ roomRequests[2].status = "pending"
    /\ roomRequests[1].room_id # roomRequests[2].room_id
    /\ roomRequests[1].date = roomRequests[2].date
    /\ NonEmpty(roomRequests[1])
    /\ NonEmpty(roomRequests[2])
    /\ RowsIntersect(roomRequests[1], roomRequests[2])

\* [cs, ce) and [s, e) only touch: one ends where the other starts
Touch(s, e, cs, ce) == ce = s \/ cs = e

\* C16: for an approved booking [s, e) and a candidate [cs, ce) of its room and
\* date, both non-empty, with ce = s or cs = e, neither the create query nor
\* the approve query reports the booking.
C16_TouchingIsNoConflict ==
    \A i \in 1 .. Len(roomRequests) :
        LET r == roomRequests[i]
        IN  (r.status = "approved" /\ NonEmpty(r)) =>
              /\ \A cs, ce \in Times :
                    (cs < ce /\ Touch(r.start_time, r.end_time, cs, ce))
                    => i \notin CreateConflictRows(roomRequests, r.room_id, r.date, cs, ce)
              /\ \A j \in 1 .. Len(roomRequests) :
                    LET c == roomRequests[j]
                    IN  ( /\ j # i
                          /\ SameSlot(c, r)
                          /\ NonEmpty(c)
                          /\ Touch(r.start_time, r.end_time, c.start_time, c.end_time) )
                        => i \notin ApproveConflictRows(roomRequests, c, j)

\* two bookings of one room and date are approved, the second starting when
\* the first ends
C16_Witness ==
    /\ resp = Response(200, "updated")
    /\ \E i, j \in 1 .. Len(roomRequests) :
          /\ i # j
          /\ roomRequests[i].status = "approved"
          /\ roomRequests[j].status = "approved"
          /\ SameSlot(roomRequests[i], roomRequests[j])
          /\ NonEmpty(roomRequests[i])
          /\ NonEmpty(roomRequests[j])
          /\ roomRequests[i].end_time = roomRequests[j].start_time

\* [cs, ce) contains [s, e)
Contains(cs, ce, s, e) == cs <= s /\ e <= ce

\* C17: for an approved booking [s, e) of an existing room, a candidate of its
\* room and date that contains it, and a non-empty candidate that it contains,
\* are answered the conflict error: at creation 400 'Room is already booked
\* for this time slot' with nothing stored, at approval 400 'Conflict
\* detected: ...' with the candidate not approved.
C17_ContainmentIsConflict ==
    \A i \in 1 .. Len(roomRequests) :
        LET r == roomRequests[i]
        IN  r.status = "approved" =>
              /\ \A u \in Members, cs, ce \in Times :
                    ( \/ Contains(cs, ce, r.start_time, r.end_time)
                      \/ cs < ce /\ Contains(r.start_time, r.end_time, cs, ce) )
                    => /\ i \in CreateConflictRows(roomRequests, r.room_id, r.date, cs, ce)
                       /\ PostRoomRequest(roomRequests, u, r.room_id, r.date, cs, ce)
                            = Outcome(Response(400, CreatedMsg), roomRequests)
              /\ \A a \in Admins, j \in 1 .. Len(roomRequests) :
                    LET c == roomRequests[j]
                    IN  ( /\ j # i
                          /\ SameSlot(c, r)
                          /\ \/ Contains(c.start_time, c.end_time, r.start_time, r.end_time)
                             \/ NonEmpty(c) /\ Contains(r.start_time, r.end_time,
                                                        c.start_time, c.end_time) )
                        => /\ i \in ApproveConflictRows(roomRequests, c, j)
                           /\ PutRoomRequest(roomRequests, a, j, "approved")
                                = Outcome(Response(400, ApproveMsg), roomRequests)

\* an approval was refused: a pending request reaches beyond both ends of an
\* approved booking of its room and date
C17_Witness ==
    /\ resp = Response(400, ApproveMsg)
    /\ \E i, j \in 1 .. Len(roomRequests) :
          /\ roomRequests[i].status = "approved"
          /\ roomRequests[j].status = "pending"
          /\ SameSlot(roomRequests[i], roomRequests[j])
          /\ NonEmpty(roomRequests[i])
          /\ roomRequests[j].start_time < roomRequests[i].start_time
          /\ roomRequests[i].end_time < roomRequests[j].end_time

\* C18: every stored room request has end_time strictly after start_time: a
\* POST /rooms/request whose end is not after its start has stored nothing.
C18_StoredIntervalsNonEmpty ==
    \A i \in 1 .. Len(roomRequests) : NonEmpty(roomRequests[i])

Statuses == {"pending", "approved", "rejected", "cancelled"}

\* C19: after every step of the room and game routes, each room request and
\* each game request has a status in {pending, approved, rejected,
\* cancelled}; a request a step has added is pending; and a PUT of either
\* route whose status is none of the four answers 400 'Invalid status' and
\* leaves both tables as they were.
C19_StatusDomain ==
    [][ /\ \A i \in 1 .. Len(roomRequests') : roomRequests'[i].status \in Statuses
        /\ \A i \in 1 .. Len(gameRequests') : gameRequests'[i].status \in Statuses
        /\ Len(roomRequests') > Len(roomRequests)
           => roomRequests'[Len(roomRequests')].status = "pending"
        /\ Len(gameRequests') > Len(gameRequests)
           => gameRequests'[Len(gameRequests')].status = "pending"
        /\ \A a \in Admins, i \in 1 .. MaxRequests + 1, st \in BodyStatuses \ Statuses :
              (UpdateRoomRequest(a, i, st) \/ UpdateGameRequest(a, i, st))
              => /\ resp' = Response(400, "Invalid status")
                 /\ UNCHANGED <<roomRequests, gameRequests>> ]_vars

\* a PUT was refused for its status while both tables hold requests that
\* staff have processed
C19_Witness ==
    /\ resp = Response(400, "Invalid status")
    /\ \E i \in 1 .. Len(roomRequests) : roomRequests[i].status = "rejected"
    /\ \E i \in 1 .. Len(gameRequests) : gameRequests[i].status = "approved"
    /\ \E i \in 1 .. Len(gameRequests) : gameRequests[i].status = "pending"

\* C20: approving again a request that is approved (a non-empty booking),
\* while no other approved request of its room and date intersects it,
\* answers 200 and leaves it approved; the request itself is never among the
\* rows the approve query returns.
C20_ReapprovalSucceeds ==
    \A a \in Admins, i \in 1 .. Len(roomRequests) :
        ( /\ roomRequests[i].status = "approved"
          /\ NonEmpty(roomRequests[i])
          /\ \A j \in 1 .. Len(roomRequests) :
                ( /\ j # i
                  /\ roomRequests[j].status = "approved"
                  /\ SameSlot(roomRequests[j], roomRequests[i]) )
                => ~RowsIntersect(roomRequests[j], roomRequests[i]) )
        => LET out == PutRoomRequest(roomRequests, a, i, "approved")
           IN  /\ i \notin ApproveConflictRows(roomRequests, roomRequests[i], i)
               /\ out.resp = Response(200, "updated")
               /\ out.table[i].status = "approved"

\* C21: every stored room request is for a room of table rooms, and a POST
\* /rooms/request with a well-formed body whose roomId matches no room
\* answers 404 'Room not found' and leaves table room_requests as it was.
C21_RoomMustExist ==
    /\ \A i \in 1 .. Len(roomRequests) : roomRequests[i].room_id \in rooms
    /\ \A u \in Members, r \in RoomIds, d \in Dates, p \in InputTimePairs :
          (ValidRoomRequestBody(r, d, p[1], p[2]) /\ r \notin rooms)
          => PostRoomRequest(roomRequests, u, r, d, p[1], p[2])
               = Outcome(Response(404, "Room not found"), roomRequests)

\* a create for a missing room was refused while an approved booking is stored
C21_Witness ==
    /\ resp = Response(404, "Room not found")
    /\ \E i \in 1 .. Len(roomRequests) :
          roomRequests[i].status = "approved" /\ NonEmpty(roomRequests[i])

\* C22: the member who created a pending room request can cancel it: the PUT
\* /rooms/requests/:id with status cancelled that the member sends answers
\* 200 and leaves the request cancelled.
C22_RequesterCancels ==
    \A i \in 1 .. Len(roomRequests) :
        roomRequests[i].status = "pending"
        => LET out == PutRoomRequestAs(roomRequests, roomRequests[i].member_id,
                                       i, "cancelled")
           IN  /\ out.resp = Response(200, "updated")
               /\ out.table[i].status = "cancelled"

\* a pending request has no approver, a processed one has the admin who
\* processed it
ApproverMatchesStatus(row) ==
    IF row.status = "pending" THEN row.staff_id = NULL ELSE row.staff_id \in Admins

\* C23: every room request and every game request that is pending has a null
\* staff_id, and every request a PUT has processed has the staff_id of the
\* admin who sent that PUT.
C23_ApproverNullUntilProcessed ==
    /\ \A i \in 1 .. Len(roomRequests) : ApproverMatchesStatus(roomRequests[i])
    /\ \A i \in 1 .. Len(gameRequests) : ApproverMatchesStatus(gameRequests[i])

\* the fields of a request that a status update does not write
Booking(row) == << row.member_id, row.room_id, row.date, row.start_time, row.end_time >>

\* C24: a PUT /rooms/requests/:id leaves the table its length, leaves every
\* other request as it was and leaves the member, room, date and times of the
\* request it names as they were; with a status of the whitelist and an id
\* that matches no request it answers 404 'Request not found', and with any
\* status and such an id it changes nothing.
C24_UpdateFrame ==
    \A a \in Admins, id \in 1 .. MaxRequests + 1, st \in BodyStatuses :
        LET out == PutRoomRequest(roomRequests, a, id, st)
        IN  /\ Len(out.table) = Len(roomRequests)
            /\ \A j \in 1 .. Len(roomRequests) :
                  /\ j # id => out.table[j] = roomRequests[j]
                  /\ Booking(out.table[j]) = Booking(roomRequests[j])
            /\ id \notin 1 .. Len(roomRequests)
               => /\ out.table = roomRequests
                  /\ st \in {"approved", "rejected", "cancelled"}
                     => out.resp = Response(404, "Request not found")

\* one of two requests was just processed and the other is still as created
C24_Witness ==
    /\ resp = Response(200, "updated")
    /\ Len(roomRequests) = 2
    /\ \E i, j \in 1 .. 2 :
          /\ i # j
          /\ roomRequests[i].status # "pending"
          /\ roomRequests[i].staff_id \in Admins
          /\ roomRequests[j].status = "pending"
          /\ roomRequests[j].staff_id = NULL

\* C25: with handlers interleaved, a step that inserts a (non-empty) room
\* request inserts it only while no approved request of its room and date
\* intersects it.
C25_InsertFailsClosed ==
    [][ Len(roomRequests') > Len(roomRequests)
        => LET new == roomRequests'[Len(roomRequests')]
           IN  NonEmpty(new)
               => ~ \E j \in 1 .. Len(roomRequests) :
                       /\ roomRequests[j].status = "approved"
                       /\ SameSlot(roomRequests[j], new)
                       /\ NonEmpty(roomRequests[j])
                       /\ RowsIntersect(roomRequests[j], new) ]_vars

\* the book's bookkeeping: no more copies on the shelf than the library owns
Consistent(book) == 0 <= book.available /\ book.available <= book.quantity

\* C28: for a book with 0 <= available <= quantity, a PUT /api/books/:id that
\* answers 200 leaves quantity - available as it was and 0 <= available <=
\* quantity, and one whose (well-formed) quantity is below the borrowed copies
\* answers 400 'Quantity cannot be less than borrowed copies' and changes
\* nothing.
C28_PutBookKeepsBookkeeping ==
    \A id \in DOMAIN books, q \in QuantityInputs :
        LET out == PutBook(books, borrowRequests, id, q)
        IN  Consistent(books[id]) =>
              /\ out.resp.code = 200 =>
                    /\ Borrowed(out.books[id]) = Borrowed(books[id])
                    /\ Consistent(out.books[id])
                    /\ out.books[id].quantity = q
              /\ (q \in 0 .. MaxQuantity + 1 /\ q < Borrowed(books[id])) =>
                    out = BookOutcome(Response(400,
                                        "Quantity cannot be less than borrowed copies"),
                                      books, borrowRequests)
              /\ out.resp.code # 200 => out.books = books

\* the quantity of a book with a copy out and a copy in was updated
C28_Witness ==
    /\ resp = Response(200, "book updated")
    /\ \E id \in DOMAIN books :
          /\ Borrowed(books[id]) > 0
          /\ books[id].available > 0
          /\ CountRequests(borrowRequests, id, "approved") = Borrowed(books[id])

\* C29: for a book with 0 <= available <= quantity, a PUT /api/admin/books/:id
\* that answers 200 leaves 0 <= available <= quantity and quantity - available
\* as it was, whatever the new quantity, and stores the available that PUT
\* /api/books/:id stores when that route answers 200 too.
C29_AdminPutKeepsBookkeeping ==
    \A id \in DOMAIN books, q \in QuantityInputs :
        LET out == AdminPutBook(books, borrowRequests, id, q)
            other == PutBook(books, borrowRequests, id, q)
        IN  (Consistent(books[id]) /\ out.resp.code = 200) =>
              /\ Consistent(out.books[id])
              /\ Borrowed(out.books[id]) = Borrowed(books[id])
              /\ other.resp.code = 200 =>
                    out.books[id].available = other.books[id].available

\* what a DELETE of a book route leaves behind, by the state it finds
DeleteIsGuarded(out, id) ==
    /\ out.borrows = borrowRequests
    /\ out.books # books =>
          /\ out.resp = Response(200, "Book deleted successfully")
          /\ out.books = WithoutBook(books, id)
          /\ books[id].quantity = books[id].available
          /\ CountRequests(borrowRequests, id, "pending") = 0
    /\ books[id].quantity # books[id].available =>
          out = BookOutcome(Response(400, "Cannot delete book with active borrows"),
                            books, borrowRequests)
    /\ (books[id].quantity = books[id].available
          /\ CountRequests(borrowRequests, id, "pending") > 0) =>
          out = BookOutcome(Response(400, "Cannot delete book with pending borrow requests"),
                            books, borrowRequests)

\* C30: with the routes handled one at a time, DELETE /api/books/:id and DELETE
\* /api/admin/books/:id remove a book only when its quantity equals its
\* available and no pending borrow request refers to it, answer 400 and leave
\* the book otherwise, and no pending borrow request refers to a book that is
\* not in table books.
C30_DeleteOnlyUnreferenced ==
    /\ \A id \in DOMAIN books :
          /\ DeleteIsGuarded(DeleteBook(books, borrowRequests, id), id)
          /\ DeleteIsGuarded(AdminDeleteBook(books, borrowRequests, id), id)
    /\ \A i \in 1 .. Len(borrowRequests) :
          borrowRequests[i].status = "pending" => borrowRequests[i].book_id \in DOMAIN books

\* a delete was refused for a pending request of a book with every copy in
C30_Witness ==
    /\ resp = Response(400, "Cannot delete book with pending borrow requests")
    /\ \E id \in DOMAIN books :
          /\ books[id].quantity = books[id].available
          /\ CountRequests(borrowRequests, id, "pending") > 0

Returned(requestId) ==
    { h \in 1 .. MaxHandlers :
        /\ handlers[h].op = "return"
        /\ handlers[h].pc = "done"
        /\ handlers[h].resp.code = 200
        /\ handlers[h].arg.requestId = requestId }

====
